---- MODULE Spec2Model ----
(***************************************************************************)
(* Model of frontend/src/app/services/mining.service.ts (MiningService):   *)
(* the per-interval stats cache with its 5 minute time-to-live, the        *)
(* pool-identity cache, the network-change subscription that clears both,  *)
(* and the derivation of MiningStats from a raw pools payload.             *)
(*                                                                         *)
(* Representation of JavaScript values:                                    *)
(*  - strings that the code formats or parses (toFixed output, the         *)
(*    x-total-count header) are sequences of one-character strings;        *)
(*    opaque strings (slugs, logo paths, unit labels, interval tokens)     *)
(*    are TLA+ strings;                                                    *)
(*  - `share` (a number with two decimals) is the integer count of         *)
(*    hundredths, so 60.00 is 6000;                                        *)
(*  - hashrates and the divider are exact numbers (num/den) * 10^e, kept   *)
(*    in the normal form of Sci;                                           *)
(*  - the result of parseInt is a JS number that may be NaN: JsNum(n) or   *)
(*    JsNaN;                                                               *)
(*  - an object is a function on its own field names, so that a missing    *)
(*    (undefined) field is a name outside DOMAIN and the object spread     *)
(*    is function override.                                                *)
(***************************************************************************)
EXTENDS Integers, Sequences, FiniteSets, TLC

(***************************************************************************)
(* Bounds of the model.                                                    *)
(***************************************************************************)
MaxTicks == 2
MaxRequests == 2
MaxCount == 3
MaxPools == 2
MaxHeaderLen == 2

(***************************************************************************)
(* Program constants.                                                      *)
(***************************************************************************)
MsPerMinute == 60000
TtlMinutes == 5
MainPower == 18
TestPower == 12

Intervals == {"24h", "1w"}
Networks == {"", "testnet", "testnet4", "signet"}
\* the networks the user switches between
SwitchNetworks == {"", "testnet"}

(***************************************************************************)
(* JavaScript values.                                                      *)
(***************************************************************************)
\* null where an object is expected, and null where a string is expected (no
\* string of characters equals it: its one element is not a character)
Null == [null |-> TRUE]
NullStr == <<"null">>

Has(o, f) == f \in DOMAIN o

\* o.f || 0 for a numeric field: undefined and 0 both give 0
OrZero(o, f) == IF Has(o, f) THEN o[f] ELSE 0

\* {...a, ...b}: the fields of b override those of a
Spread(a, b) == [f \in (DOMAIN a) \cup (DOMAIN b) |-> IF f \in DOMAIN b THEN b[f] ELSE a[f]]

JsNum(n) == [isNaN |-> FALSE, n |-> n]
JsNaN == [isNaN |-> TRUE, n |-> 0]

RECURSIVE Gcd(_, _)
Gcd(a, b) == IF b = 0 THEN a ELSE Gcd(b, a % b)

RECURSIVE StripTens(_)
\* moves factors of ten between the fraction and the exponent
StripTens(x) ==
    IF x.num # 0 /\ x.num % 10 = 0 THEN StripTens([num |-> x.num \div 10, den |-> x.den, e |-> x.e + 1])
    ELSE IF x.den % 10 = 0 THEN StripTens([num |-> x.num, den |-> x.den \div 10, e |-> x.e - 1])
    ELSE x

\* the number (num/den) * 10^e in normal form; den > 0
Sci(num, den, e) ==
    IF num = 0 THEN [num |-> 0, den |-> 1, e |-> 0]
    ELSE LET g == Gcd(num, den)
         IN StripTens([num |-> num \div g, den |-> den \div g, e |-> e])

Digits == <<"0", "1", "2", "3", "4", "5", "6", "7", "8", "9">>
IsDigit(c) == \E i \in 1..10 : Digits[i] = c
DigitVal(c) == (CHOOSE i \in 1..10 : Digits[i] = c) - 1

RECURSIVE IntToChars(_)
\* the decimal digits of a natural number
IntToChars(n) == IF n < 10 THEN <<Digits[n + 1]>> ELSE IntToChars(n \div 10) \o <<Digits[(n % 10) + 1]>>

\* (num/den).toFixed(2) for num >= 0, den > 0: the nearest count of hundredths,
\* the larger one on a tie, printed with exactly two decimals
Hundredths(num, den) == (200 * num + den) \div (2 * den)
ToFixed2(num, den) ==
    LET h == Hundredths(num, den)
    IN IntToChars(h \div 100) \o <<".">> \o <<Digits[((h % 100) \div 10) + 1], Digits[(h % 10) + 1]>>

RECURSIVE DigitsVal(_, _)
\* the value of the longest prefix of digits of s, read after the value acc
DigitsVal(s, acc) ==
    IF s = <<>> \/ ~IsDigit(Head(s)) THEN acc
    ELSE DigitsVal(Tail(s), 10 * acc + DigitVal(Head(s)))

RECURSIVE SkipSpace(_)
SkipSpace(s) == IF s # <<>> /\ Head(s) = " " THEN SkipSpace(Tail(s)) ELSE s

\* parseInt(s, 10): leading white space, an optional sign, then the longest
\* prefix of digits; NaN when there is no digit
ParseInt(s) ==
    LET t == SkipSpace(s)
        neg == t # <<>> /\ Head(t) = "-"
        u == IF t # <<>> /\ Head(t) \in {"-", "+"} THEN Tail(t) ELSE t
    IN IF u = <<>> \/ ~IsDigit(Head(u)) THEN JsNaN
       ELSE JsNum(IF neg THEN 0 - DigitsVal(u, 0) ELSE DigitsVal(u, 0))

\* parseFloat of a string printed by toFixed(2), as a count of hundredths
ParseFloat2(s) ==
    LET dot == CHOOSE i \in 1..Len(s) : s[i] = "."
    IN 100 * DigitsVal(SubSeq(s, 1, dot - 1), 0) + DigitsVal(SubSeq(s, dot + 1, Len(s)), 0)

(***************************************************************************)
(* Arithmetic on the exact numbers of Sci.                                 *)
(***************************************************************************)
Zero == Sci(0, 1, 0)
FromInt(n) == Sci(n, 1, 0)
Mul(a, b) == Sci(a.num * b.num, a.den * b.den, a.e + b.e)
\* a / b for b # 0
Div(a, b) == Sci(a.num * b.den, a.den * b.num, a.e - b.e)

(***************************************************************************)
(* getMiningUnits: the display unit of the active network.                 *)
(***************************************************************************)
powerTable == [p \in {0, 3, 6, 9, 12, 15, 18} |->
    CASE p = 0 -> "H/s" [] p = 3 -> "kH/s" [] p = 6 -> "MH/s" [] p = 9 -> "GH/s"
      [] p = 12 -> "TH/s" [] p = 15 -> "PH/s" [] p = 18 -> "EH/s"]

\* variant: only "testnet" selects the test power
selectedPowerTestnetOnly(net) == IF net = "testnet" THEN TestPower ELSE MainPower

selectedPower(net) == IF net = "testnet" \/ net = "testnet4" THEN TestPower ELSE MainPower

getMiningUnits(net) ==
    [hashrateDivider |-> Sci(1, 1, selectedPower(net)),
     hashrateUnit |-> powerTable[selectedPower(net)]]

(***************************************************************************)
(* getDefaultTimespan: the stored window preference, not below `min`.      *)
(***************************************************************************)
timespans == <<"24h", "3d", "1w", "1m", "3m", "6m", "1y", "2y", "3y", "all">>

\* a value of the preference store: no value (null), or a string
Absent == [present |-> FALSE]
Stored(s) == [present |-> TRUE, value |-> s]

\* array.indexOf(x): the first position of x counted from 0, or -1
IndexOf(array, x) ==
    IF \E i \in 1..Len(array) : array[i] = x
    THEN (CHOOSE i \in 1..Len(array) : array[i] = x /\ \A j \in 1..(i - 1) : array[j] # x) - 1
    ELSE -1

\* v ?? d
Coalesce(v, d) == IF v.present THEN v.value ELSE d

\* variant: the floor is not applied
getDefaultTimespanNoFloor(min, stored) == Coalesce(stored, "1w")

\* variant: an absent preference counts as "24h"
getDefaultTimespanDayDefault(min, stored) ==
    LET pref == Coalesce(stored, "24h")
    IN IF IndexOf(timespans, pref) < IndexOf(timespans, min) THEN min ELSE pref

getDefaultTimespan(min, stored) ==
    LET pref == Coalesce(stored, "1w")
    IN IF IndexOf(timespans, pref) < IndexOf(timespans, min) THEN min ELSE pref

(***************************************************************************)
(* generateMiningStats: MiningStats from a response {body, headers}.       *)
(***************************************************************************)
FixedZero == <<"0", ".", "0", "0">>

\* headers.get(name): the header value, or null when the header is absent
HeadersGet(headers, name) == IF Has(headers, name) THEN headers[name] ELSE NullStr

\* v || '0' for a header value: null and the empty string give '0'
OrZeroString(v) == IF v = NullStr \/ v = <<>> THEN <<"0">> ELSE v

\* o.f || 0 for a hashrate field
OrZeroRate(o, f) == IF Has(o, f) THEN o[f] ELSE Zero

\* reading a property of null, or Object.values(undefined), raises a TypeError
GenerateThrows(response) == response.body = Null \/ ~Has(response.body, "pools")

safeBlockCountOf(stats) == IF stats.blockCount > 0 THEN stats.blockCount ELSE 1

RECURSIVE SumEmptyBlocks(_)
\* Object.values(stats.pools).reduce((prev, cur) => prev + (cur.emptyBlocks || 0), 0)
SumEmptyBlocks(pools) ==
    IF pools = <<>> THEN 0 ELSE OrZero(Head(pools), "emptyBlocks") + SumEmptyBlocks(Tail(pools))

\* variant: the ratio taken per thousand
totalEmptyBlockRatioPerMille(stats) ==
    IF stats.blockCount > 0 THEN ToFixed2(1000 * SumEmptyBlocks(stats.pools), stats.blockCount)
    ELSE FixedZero

totalEmptyBlockRatioOf(stats) ==
    IF stats.blockCount > 0 THEN ToFixed2(100 * SumEmptyBlocks(stats.pools), stats.blockCount)
    ELSE FixedZero

\* the hashrate estimate of the network attributed to a pool by its blocks
PoolRate(poolStat, stats, f, hashrateDivider) ==
    Div(Mul(Div(FromInt(poolStat.blockCount), FromInt(safeBlockCountOf(stats))), OrZeroRate(stats, f)),
        hashrateDivider)

\* variant: the share divided by safeBlockCount, without the guard on blockCount
PoolShareUnguarded(poolStat, stats) ==
    ParseFloat2(ToFixed2(100 * poolStat.blockCount, safeBlockCountOf(stats)))

\* variant: the share cut to two decimals instead of rounded
PoolShareTruncated(poolStat, stats) ==
    IF stats.blockCount > 0 THEN (100 * 100 * poolStat.blockCount) \div stats.blockCount
    ELSE 0

PoolShare(poolStat, stats) ==
    IF stats.blockCount > 0 THEN ParseFloat2(ToFixed2(100 * poolStat.blockCount, stats.blockCount))
    ELSE 0

\* variant: the ratio cut to two decimals instead of rounded
PoolEmptyBlockRatioTruncated(poolStat) ==
    IF poolStat.blockCount > 0
    THEN LET h == (100 * 100 * OrZero(poolStat, "emptyBlocks")) \div poolStat.blockCount
         IN IntToChars(h \div 100) \o <<".">> \o <<Digits[((h % 100) \div 10) + 1], Digits[(h % 10) + 1]>>
    ELSE FixedZero

PoolEmptyBlockRatio(poolStat) ==
    IF poolStat.blockCount > 0 THEN ToFixed2(100 * OrZero(poolStat, "emptyBlocks"), poolStat.blockCount)
    ELSE FixedZero

PoolLogo(poolStat) ==
    "/resources/mining-pools/" \o poolStat.slug \o (IF poolStat.slug = "unknown" THEN ".png" ELSE ".svg")

\* one element of stats.pools.map(...): the computed fields, then ...poolStat
DerivePool(poolStat, stats, hashrateDivider) ==
    Spread([share |-> PoolShare(poolStat, stats),
            lastEstimatedHashrate |-> PoolRate(poolStat, stats, "lastEstimatedHashrate", hashrateDivider),
            lastEstimatedHashrate3d |-> PoolRate(poolStat, stats, "lastEstimatedHashrate3d", hashrateDivider),
            lastEstimatedHashrate1w |-> PoolRate(poolStat, stats, "lastEstimatedHashrate1w", hashrateDivider),
            emptyBlockRatio |-> PoolEmptyBlockRatio(poolStat),
            logo |-> PoolLogo(poolStat)],
           poolStat)

totalBlockCountOf(response) == ParseInt(OrZeroString(HeadersGet(response.headers, "x-total-count")))

\* defined when ~GenerateThrows(response)
generateMiningStats(response, net) ==
    LET stats == response.body
        miningUnits == getMiningUnits(net)
        hashrateDivider == miningUnits.hashrateDivider
    IN [lastEstimatedHashrate |-> Div(OrZeroRate(stats, "lastEstimatedHashrate"), hashrateDivider),
        lastEstimatedHashrate3d |-> Div(OrZeroRate(stats, "lastEstimatedHashrate3d"), hashrateDivider),
        lastEstimatedHashrate1w |-> Div(OrZeroRate(stats, "lastEstimatedHashrate1w"), hashrateDivider),
        blockCount |-> stats.blockCount,
        totalEmptyBlock |-> SumEmptyBlocks(stats.pools),
        totalEmptyBlockRatio |-> totalEmptyBlockRatioOf(stats),
        pools |-> [i \in 1..Len(stats.pools) |-> DerivePool(stats.pools[i], stats, hashrateDivider)],
        miningUnits |-> miningUnits,
        totalBlockCount |-> totalBlockCountOf(response)]

\* the placeholder built by the catchError handler of getMiningStats
EmptyStats(net) ==
    [lastEstimatedHashrate |-> Zero,
     lastEstimatedHashrate3d |-> Zero,
     lastEstimatedHashrate1w |-> Zero,
     blockCount |-> 0,
     totalEmptyBlock |-> 0,
     totalEmptyBlockRatio |-> FixedZero,
     pools |-> <<>>,
     miningUnits |-> getMiningUnits(net),
     totalBlockCount |-> JsNum(0)]

(***************************************************************************)
(* State of the service and of its environment.                            *)
(***************************************************************************)
VARIABLES
    network,      \* stateService.network, the active network
    now,          \* Date.now(), in milliseconds
    cache,        \* this.cache: interval -> Null (no such key) or {lastUpdated, data}
    poolsData,    \* this.poolsData
    fetches,      \* the listPools$(interval) requests of getMiningStats, in order of issue:
                  \* interval, net (the network at the call), status, and the history
                  \* eventSince (a network change has happened since the call) and
                  \* issuedAt (the time of the call, kept until a network change)
    poolFetches,  \* the listPools$(undefined) requests of getPools, in order of issue:
                  \* net (the network at the call), status, and the history stored
                  \* (poolsData is the body this request delivered)
    invalidated,  \* the intervals cached at a network change and not asked for since
    last,         \* the last operation and what it delivered to its caller
    input,        \* the response handed to generateMiningStats on its own
    preference    \* storageService.getValue('miningWindowPreference')

vars == <<network, now, cache, poolsData, fetches, poolFetches, invalidated, last, input, preference>>

\* A MiningStats object is a reference and a value: [ref |-> r, val |-> stats].
\* The object a request of `fetches` emits has the id of the request as its reference.
Obj(r, v) == [ref |-> r, val |-> v]

Ttl == TtlMinutes * MsPerMinute

\* the step of the clock: half the time-to-live, so that an entry is seen at the
\* ages 0, Ttl/2 (fresh), exactly Ttl and beyond
TickMs == Ttl \div 2

(***************************************************************************)
(* Responses of the backend used by the service operations.                *)
(***************************************************************************)
Chars(n) == IntToChars(n)

SamplePool == [slug |-> "unknown", blockCount |-> 2, emptyBlocks |-> 1]
SampleBody == [blockCount |-> 2, lastEstimatedHashrate |-> Sci(5, 1, 20), pools |-> <<SamplePool>>]
SampleResponses ==
    {[body |-> SampleBody, headers |-> [x \in {"x-total-count"} |-> Chars(2)]],
     [body |-> Null, headers |-> [x \in {"content-type"} |-> <<"j">>]]}

\* generateMiningStats of the sample responses on every network, tabulated so
\* that it is computed once
SampleStats ==
    [net \in Networks |->
        [r \in SampleResponses |-> IF GenerateThrows(r) THEN Null ELSE generateMiningStats(r, net)]]

PoolIdentity(n) == [name |-> "pool", slug |-> IF n = 1 THEN "unknown" ELSE "foundryusa"]
SamplePoolLists == {<<>>, <<PoolIdentity(1), PoolIdentity(2)>>}

(***************************************************************************)
(* The pipe of getMiningStats: map, catchError, tap.  A notification is    *)
(* [kind |-> "next", value |-> v] or [kind |-> "error"].                   *)
(***************************************************************************)
OnNext(v) == [kind |-> "next", value |-> v]
OnError == [kind |-> "error", value |-> Null]

\* map(response => this.generateMiningStats(response)): an exception raised by
\* the projection becomes an error notification; an error passes through
MapStage(n, net) ==
    IF n.kind = "error" THEN n
    ELSE IF GenerateThrows(n.value) THEN OnError
    ELSE OnNext(SampleStats[net][n.value])

\* variant: no catchError, the error reaches the subscriber
CatchErrorStageRethrow(n, net) == n

\* catchError(err => of(empty))
CatchErrorStage(n, net) == IF n.kind = "error" THEN OnNext(EmptyStats(net)) ELSE n

\* what reaches tap and then the subscriber, for what the request delivered
Piped(n, net) == CatchErrorStage(MapStage(n, net), net)

\* variant: an entry already in the cache is kept
TapStageFirstWins(n, id, interval, c, t) ==
    IF n.kind = "next" /\ c[interval] = Null
    THEN [c EXCEPT ![interval] = [lastUpdated |-> t, data |-> Obj(id, n.value)]]
    ELSE c

\* tap(stats => this.cache[interval] = {lastUpdated: Date.now(), data: stats})
TapStage(n, id, interval, c, t) ==
    IF n.kind = "next"
    THEN [c EXCEPT ![interval] = [lastUpdated |-> t, data |-> Obj(id, n.value)]]
    ELSE c

(***************************************************************************)
(* Operations.                                                             *)
(***************************************************************************)
Init ==
    /\ network = ""
    /\ now = 0
    /\ cache = [k \in Intervals |-> Null]
    /\ poolsData = <<>>
    /\ fetches = <<>>
    /\ poolFetches = <<>>
    /\ invalidated = {}
    /\ last = [op |-> "new"]
    /\ input = Null
    /\ preference = Absent

\* time passes
Tick ==
    /\ now < MaxTicks * TickMs
    /\ now' = now + TickMs
    /\ last' = [op |-> "tick"]
    /\ UNCHANGED <<network, cache, poolsData, fetches, poolFetches, invalidated, input, preference>>

\* variant: only the stats cache is cleared
clearCacheStatsOnly ==
    /\ cache' = [k \in Intervals |-> Null]
    /\ poolsData' = poolsData

\* clearCache()
clearCache ==
    /\ cache' = [k \in Intervals |-> Null]
    /\ poolsData' = <<>>

\* the network becomes n and networkChanged$ fires: the subscription of the
\* constructor runs clearCache()
NetworkChanged(n) ==
    /\ n # network
    /\ network' = n
    /\ clearCache
    /\ fetches' = [i \in 1..Len(fetches) |-> [fetches[i] EXCEPT !.eventSince = TRUE, !.issuedAt = 0]]
    /\ last' = [op |-> "networkChanged"]
    /\ invalidated' = invalidated \cup {k \in Intervals : cache[k] # Null}
    /\ poolFetches' = [i \in 1..Len(poolFetches) |-> [poolFetches[i] EXCEPT !.stored = FALSE]]
    /\ UNCHANGED <<now, input, preference>>

\* variant: an entry of age exactly 5 minutes still counts as fresh
CacheHitInclusive(interval) ==
    /\ cache[interval] # Null
    /\ cache[interval].lastUpdated >= now - TtlMinutes * MsPerMinute

\* variant: a time-to-live of one minute
CacheHitOneMinute(interval) ==
    /\ cache[interval] # Null
    /\ cache[interval].lastUpdated > now - MsPerMinute

\* this.cache[interval] && this.cache[interval].lastUpdated > (Date.now() - (5 * 60000))
CacheHit(interval) ==
    /\ cache[interval] # Null
    /\ cache[interval].lastUpdated > now - TtlMinutes * MsPerMinute

\* variant: a call answered from cache renews the time of the entry
GetMiningStatsRefreshing(interval) ==
    IF CacheHit(interval)
    THEN /\ last' = [op |-> "getMiningStats", interval |-> interval, fromCache |-> TRUE,
                     fetch |-> 0, value |-> cache[interval].data]
         /\ cache' = [cache EXCEPT ![interval].lastUpdated = now]
         /\ invalidated' = invalidated \ {interval}
         /\ UNCHANGED <<network, now, poolsData, fetches, poolFetches, input, preference>>
    ELSE /\ Len(fetches) + Len(poolFetches) < MaxRequests
         /\ fetches' = Append(fetches, [interval |-> interval, net |-> network, issuedAt |-> now,
                                        status |-> "pending", eventSince |-> FALSE])
         /\ last' = [op |-> "getMiningStats", interval |-> interval, fromCache |-> FALSE,
                     fetch |-> Len(fetches) + 1, value |-> Null]
         /\ invalidated' = invalidated \ {interval}
         /\ UNCHANGED <<network, now, cache, poolsData, poolFetches, input, preference>>

\* getMiningStats(interval), subscribed to by its caller
GetMiningStats(interval) ==
    IF CacheHit(interval)
    THEN /\ last' = [op |-> "getMiningStats", interval |-> interval, fromCache |-> TRUE,
                     fetch |-> 0, value |-> cache[interval].data]
         /\ invalidated' = invalidated \ {interval}
         /\ UNCHANGED <<network, now, cache, poolsData, fetches, poolFetches, input, preference>>
    ELSE /\ Len(fetches) + Len(poolFetches) < MaxRequests
         /\ fetches' = Append(fetches, [interval |-> interval, net |-> network, issuedAt |-> now,
                                        status |-> "pending", eventSince |-> FALSE])
         /\ last' = [op |-> "getMiningStats", interval |-> interval, fromCache |-> FALSE,
                     fetch |-> Len(fetches) + 1, value |-> Null]
         /\ invalidated' = invalidated \ {interval}
         /\ UNCHANGED <<network, now, cache, poolsData, poolFetches, input, preference>>

\* variant: the stats are derived with the units of the network of the call
FetchEndsUnitsAtCall(id, n) ==
    LET out == Piped(n, fetches[id].net)
    IN /\ fetches[id].status = "pending"
       /\ cache' = TapStage(out, id, fetches[id].interval, cache, now)
       /\ fetches' = [fetches EXCEPT ![id].status = out.kind]
       /\ last' = [op |-> "fetchEnds", interval |-> fetches[id].interval, fetch |-> id,
                   failed |-> (n.kind = "error"), kind |-> out.kind,
                   value |-> IF out.kind = "next" THEN Obj(id, out.value) ELSE Null]
       /\ UNCHANGED <<network, now, poolsData, poolFetches, invalidated, input, preference>>

\* request id of getMiningStats ends with the notification n of the HTTP client;
\* the pipe runs and its subscriber receives the outcome
FetchEnds(id, n) ==
    LET out == Piped(n, network)
    IN /\ fetches[id].status = "pending"
       /\ cache' = TapStage(out, id, fetches[id].interval, cache, now)
       /\ fetches' = [fetches EXCEPT ![id].status = out.kind]
       /\ last' = [op |-> "fetchEnds", interval |-> fetches[id].interval, fetch |-> id,
                   failed |-> (n.kind = "error"), kind |-> out.kind,
                   value |-> IF out.kind = "next" THEN Obj(id, out.value) ELSE Null]
       /\ UNCHANGED <<network, now, poolsData, poolFetches, invalidated, input, preference>>

\* the backend answers request id
FetchResponds(id, resp) == FetchEnds(id, OnNext(resp))

\* request id fails in transport or at the backend
FetchFails(id) == FetchEnds(id, OnError)

\* getPools(), subscribed to by its caller
GetPools ==
    IF Len(poolsData) # 0
    THEN /\ last' = [op |-> "getPools", fromCache |-> TRUE, fetch |-> 0, pools |-> poolsData]
         /\ UNCHANGED <<network, now, cache, poolsData, fetches, poolFetches, invalidated, input, preference>>
    ELSE /\ Len(fetches) + Len(poolFetches) < MaxRequests
         /\ poolFetches' = Append(poolFetches, [net |-> network, status |-> "pending", stored |-> FALSE])
         /\ last' = [op |-> "getPools", fromCache |-> FALSE, fetch |-> Len(poolFetches) + 1,
                     pools |-> <<>>]
         /\ UNCHANGED <<network, now, cache, poolsData, fetches, invalidated, input, preference>>

\* map(response => { this.poolsData = response.body; return this.poolsData; })
PoolsRespond(id, body) ==
    /\ poolFetches[id].status = "pending"
    /\ poolsData' = body
    /\ poolFetches' = [i \in 1..Len(poolFetches) |->
                          [poolFetches[i] EXCEPT !.status = IF i = id THEN "next" ELSE @,
                                                 !.stored = (i = id)]]
    /\ last' = [op |-> "poolsEnd", fetch |-> id, failed |-> FALSE, kind |-> "next",
                body |-> body, pools |-> body]
    /\ UNCHANGED <<network, now, cache, fetches, invalidated, input, preference>>

\* variant: the failure handler also empties the pool-identity cache
PoolsFailClears(id) ==
    /\ poolFetches[id].status = "pending"
    /\ poolsData' = <<>>
    /\ poolFetches' = [poolFetches EXCEPT ![id].status = "next"]
    /\ last' = [op |-> "poolsEnd", fetch |-> id, failed |-> TRUE, kind |-> "next", pools |-> <<>>]
    /\ UNCHANGED <<network, now, cache, fetches, invalidated, input, preference>>

\* catchError(() => of([]))
PoolsFail(id) ==
    /\ poolFetches[id].status = "pending"
    /\ poolFetches' = [poolFetches EXCEPT ![id].status = "next"]
    /\ last' = [op |-> "poolsEnd", fetch |-> id, failed |-> TRUE, kind |-> "next", pools |-> <<>>]
    /\ UNCHANGED <<network, now, cache, poolsData, fetches, invalidated, input, preference>>

\* getMiningUnits(), called by a component
GetMiningUnits ==
    /\ last' = [op |-> "getMiningUnits", units |-> getMiningUnits(network)]
    /\ UNCHANGED <<network, now, cache, poolsData, fetches, poolFetches, invalidated, input, preference>>

\* getDefaultTimespan(min), called by a component
GetDefaultTimespan(min) ==
    /\ last' = [op |-> "getDefaultTimespan", min |-> min, timespan |-> getDefaultTimespan(min, preference)]
    /\ UNCHANGED <<network, now, cache, poolsData, fetches, poolFetches, invalidated, input, preference>>

\* the floor asked for among the service operations; every floor is asked for
\* under QuerySpec
SampleFloors == {"1m"}

Next ==
    \/ Tick
    \/ \E n \in SwitchNetworks : NetworkChanged(n)
    \/ \E k \in Intervals : GetMiningStats(k)
    \/ \E id \in 1..Len(fetches), resp \in SampleResponses : FetchResponds(id, resp)
    \/ \E id \in 1..Len(fetches) : FetchFails(id)
    \/ GetPools
    \/ \E id \in 1..Len(poolFetches), body \in SamplePoolLists : PoolsRespond(id, body)
    \/ \E id \in 1..Len(poolFetches) : PoolsFail(id)
    \/ GetMiningUnits
    \/ \E min \in SampleFloors : GetDefaultTimespan(min)

Spec == Init /\ [][Next]_vars

\* a pending request of getMiningStats responds or fails
FetchCompletes ==
    \E id \in 1..Len(fetches) :
        \/ \E resp \in SampleResponses : FetchResponds(id, resp)
        \/ FetchFails(id)

\* the HTTP client ends every request: while one is pending, one eventually ends
LiveSpec == Spec /\ WF_vars(FetchCompletes)

(***************************************************************************)
(* generateMiningStats on its own: the derivation applied to one response  *)
(* drawn from the payloads below, on any network.                          *)
(***************************************************************************)
\* a raw pool record; emptyBlocks < 0 stands for a record without that field
RawPool(slug, blockCount, emptyBlocks) ==
    IF emptyBlocks < 0 THEN [slug |-> slug, blockCount |-> blockCount]
    ELSE [slug |-> slug, blockCount |-> blockCount, emptyBlocks |-> emptyBlocks]

PlainPools == {RawPool("foundryusa", b, e) : b \in 0..MaxCount, e \in -1..MaxCount}

\* raw records of other shapes: the slug "unknown", and records that carry
\* fields of the derived record themselves
OddPools ==
    {RawPool("unknown", b, 1) : b \in 0..MaxCount}
    \cup {Spread(RawPool("foundryusa", b, 1), [share |-> 12345]) : b \in 0..MaxCount}
    \cup {Spread(RawPool("foundryusa", b, 1), [emptyBlockRatio |-> <<"1", "2", "3", ".", "4", "5">>]) :
            b \in 0..MaxCount}

RECURSIVE SeqsUpTo(_, _)
\* the sequences over S of length at most n
SeqsUpTo(S, n) ==
    IF n = 0 THEN {<<>>}
    ELSE LET shorter == SeqsUpTo(S, n - 1)
         IN shorter \cup {Append(q, x) : q \in shorter, x \in S}

HeaderChars == {"0", "7", "x", "-", " "}
HeaderValues == SeqsUpTo(HeaderChars, MaxHeaderLen)

CountHeader(n) == [x \in {"x-total-count"} |-> Chars(n)]
NoHeaders == [x \in {"content-type"} |-> <<"j">>]

Body(blockCount, pools) == [blockCount |-> blockCount, pools |-> pools]

\* a payload of 100 blocks with an estimate of 5e20 H/s and the pools A and B
ExamplePayload ==
    [blockCount |-> 100, lastEstimatedHashrate |-> Sci(5, 1, 20),
     pools |-> <<RawPool("A", 60, 1), RawPool("B", 40, 0)>>]

DeriveInputs ==
    \* the example payload
    {[body |-> ExamplePayload, headers |-> CountHeader(2)]} \cup
    \* every list of plain pools under every total
    {[body |-> Body(b, ps), headers |-> CountHeader(7)] : b \in 0..MaxCount, ps \in SeqsUpTo(PlainPools, MaxPools)}
    \* the other shapes of pool record
    \cup {[body |-> Body(b, <<p>>), headers |-> CountHeader(7)] : b \in 0..MaxCount, p \in OddPools}
    \* every value of the total-count header, and its absence
    \cup {[body |-> SampleBody, headers |-> [x \in {"x-total-count"} |-> h]] : h \in HeaderValues}
    \cup {[body |-> SampleBody, headers |-> NoHeaders]}
    \* the hashrate estimates present
    \cup {[body |-> [blockCount |-> 100, lastEstimatedHashrate |-> Sci(5, 1, 20),
                     lastEstimatedHashrate3d |-> Sci(4, 1, 20), lastEstimatedHashrate1w |-> Sci(3, 1, 20),
                     pools |-> <<RawPool("A", 60, 1), RawPool("B", 40, 0)>>],
           headers |-> CountHeader(2)]}
    \* bodies the derivation cannot read
    \cup {[body |-> Null, headers |-> NoHeaders], [body |-> [blockCount |-> 1], headers |-> NoHeaders]}

DeriveInit ==
    /\ network \in Networks
    /\ now = 0
    /\ cache = [k \in Intervals |-> Null]
    /\ poolsData = <<>>
    /\ fetches = <<>>
    /\ poolFetches = <<>>
    /\ invalidated = {}
    /\ last = [op |-> "new"]
    /\ input \in DeriveInputs
    /\ preference = Absent

\* this.generateMiningStats(input)
Derive ==
    /\ last.op = "new"
    /\ last' = IF GenerateThrows(input) THEN [op |-> "generateMiningStats", threw |-> TRUE, value |-> Null]
               ELSE [op |-> "generateMiningStats", threw |-> FALSE,
                     value |-> generateMiningStats(input, network)]
    /\ UNCHANGED <<network, now, cache, poolsData, fetches, poolFetches, invalidated, input, preference>>

DeriveNext == Derive

DeriveSpec == DeriveInit /\ [][DeriveNext]_vars

(***************************************************************************)
(* The read-only queries on their own: getMiningUnits on every network and *)
(* getDefaultTimespan for every floor and every stored preference.         *)
(***************************************************************************)
Tokens == {timespans[i] : i \in 1..Len(timespans)}

\* strings that are no timespan token
OtherStrings == {"", "2h"}

Preferences == {Absent} \cup {Stored(s) : s \in Tokens \cup OtherStrings}

QueryInit ==
    /\ network \in Networks
    /\ now = 0
    /\ cache = [k \in Intervals |-> Null]
    /\ poolsData \in SamplePoolLists
    /\ fetches = <<>>
    /\ poolFetches = <<>>
    /\ invalidated = {}
    /\ last = [op |-> "new"]
    /\ input = Null
    /\ preference \in Preferences

QueryNext ==
    \/ GetMiningUnits
    \/ \E min \in Tokens \cup OtherStrings : GetDefaultTimespan(min)

QuerySpec == QueryInit /\ [][QueryNext]_vars

(***************************************************************************)
(* Properties of the stats cache.                                          *)
(***************************************************************************)
FetchIds == 1..Len(fetches)
Completed(id) == fetches[id].status # "pending"

\* a MiningStats with all counts 0, no pools, ratio "0.00" and the units of net
Zeroed(v, net) ==
    /\ v.lastEstimatedHashrate = Zero /\ v.lastEstimatedHashrate3d = Zero /\ v.lastEstimatedHashrate1w = Zero
    /\ v.blockCount = 0 /\ v.totalEmptyBlock = 0 /\ v.totalBlockCount = JsNum(0)
    /\ v.pools = <<>>
    /\ v.totalEmptyBlockRatio = <<"0", ".", "0", "0">>
    /\ v.miningUnits = getMiningUnits(net)

\* C1: when the fetch of getMiningStats(interval) fails, the caller receives a
\* zeroed MiningStats with the units of the current network, and the cache is not
\* populated for that interval by the failed fetch.
C1_FailureNotCached ==
    (last.op = "fetchEnds" /\ last.failed) =>
        /\ last.kind = "next"
        /\ Zeroed(last.value.val, network)
        /\ ~(cache[last.interval] # Null /\ cache[last.interval].data.ref = last.fetch)

\* C2: every entry of the stats cache holds data of a fetch issued while the
\* currently active network was active, and a call answered from cache never
\* returns stats fetched for another network.
C2_NoCrossNetworkEntry ==
    /\ \A k \in Intervals : cache[k] # Null => fetches[cache[k].data.ref].net = network
    /\ (last.op = "getMiningStats" /\ last.fromCache) => fetches[last.value.ref].net = network

\* the requests for the interval of the call `last` that an earlier call issued
\* less than 5 minutes before it, with no network change since
EarlierCalls ==
    {f \in FetchIds : /\ f # last.fetch
                      /\ fetches[f].interval = last.interval
                      /\ ~fetches[f].eventSince
                      /\ now - fetches[f].issuedAt < Ttl}

C4_FreshFetchAfterChange ==
    [][(last'.op = "getMiningStats" /\ last'.interval \in invalidated) => ~last'.fromCache]_vars

\* C5: getMiningStats(interval) is answered from cache, with no request, if and
\* only if there is an entry for the interval and now - lastUpdated < 5 minutes;
\* otherwise it issues one request.
C5_HitIffFresh ==
    [][(last'.op = "getMiningStats") =>
         LET k == last'.interval
             fresh == cache[k] # Null /\ now - cache[k].lastUpdated < Ttl
         IN /\ last'.fromCache <=> fresh
            /\ fresh => (fetches' = fetches /\ poolFetches' = poolFetches /\ last'.value = cache[k].data)
            /\ ~fresh => (Len(fetches') = Len(fetches) + 1 /\ fetches'[Len(fetches')].status = "pending"
                          /\ fetches'[Len(fetches')].interval = k)]_vars

\* a call that finds an entry of age exactly 5 minutes and issues a request
C5_Witness ==
    /\ last.op = "getMiningStats"
    /\ ~last.fromCache
    /\ cache[last.interval] # Null
    /\ now - cache[last.interval].lastUpdated = Ttl

\* C6: every getMiningStats call that issued a request eventually delivers a
\* value to its caller, and no call ever delivers an error, whether the request
\* succeeds, fails, or the derivation of its response raises; a call answered
\* from cache delivers its value at once.
C6_TerminalValue ==
    /\ \A id \in 1..MaxRequests :
          (id <= Len(fetches)) ~> (id <= Len(fetches) /\ fetches[id].status = "next")
    /\ [](\A id \in FetchIds : fetches[id].status # "error")
    /\ [](IF last.op = "getMiningStats" THEN (last.fromCache => last.value # Null) ELSE TRUE)

\* a request was answered, the derivation raised, and the caller received the placeholder
C6_Witness ==
    /\ last.op = "fetchEnds"
    /\ ~last.failed
    /\ last.kind = "next"
    /\ last.value.val = EmptyStats(network)

(***************************************************************************)
(* Properties of the pool-identity cache.                                  *)
(***************************************************************************)
\* a call of getPools is answered from the cache exactly when it is non-empty,
\* and otherwise issues one request
GetPoolsCall ==
    (last'.op = "getPools") =>
        /\ last'.fromCache <=> (poolsData # <<>>)
        /\ last'.fromCache => (last'.pools = poolsData /\ poolFetches' = poolFetches)
        /\ ~last'.fromCache => (Len(poolFetches') = Len(poolFetches) + 1
                                /\ poolFetches'[Len(poolFetches')].status = "pending")

\* a response is stored as the pool-identity cache and returned
GetPoolsSuccess ==
    (last'.op = "poolsEnd" /\ ~last'.failed) => (poolsData' = last'.body /\ last'.pools = poolsData')

\* C7: getPools() returns the cached sequence without a request when it is
\* non-empty, otherwise issues one request, stores and returns the response body;
\* on failure it returns an empty sequence and leaves the cache unchanged, and
\* empty, so that the next call fetches again.
C7_GetPools ==
    [][/\ GetPoolsCall
       /\ GetPoolsSuccess
       /\ (last'.op = "poolsEnd" /\ last'.failed) =>
              (last'.pools = <<>> /\ poolsData' = poolsData /\ poolsData' = <<>>)]_vars

\* C7 as amended: on failure the cache is left unchanged; it is still empty, and
\* the next call fetches again, unless another request of getPools has stored a
\* list in the meantime.
C7_GetPoolsUnchangedOnFailure ==
    [][/\ GetPoolsCall
       /\ GetPoolsSuccess
       /\ (last'.op = "poolsEnd" /\ last'.failed) => (last'.pools = <<>> /\ poolsData' = poolsData)]_vars

\* a request of getPools failed after another one had stored a list
C7_Witness ==
    /\ last.op = "poolsEnd"
    /\ last.failed
    /\ last.pools = <<>>
    /\ poolsData # <<>>

(***************************************************************************)
(* Properties of the derivation, under DeriveSpec.                         *)
(***************************************************************************)
Derived == last.op = "generateMiningStats" /\ ~last.threw
RawPools == input.body.pools
PoolIdx == 1..Len(RawPools)

\* C8: for every payload with blockCount = 0 and any list of pools, the derived
\* totalEmptyBlockRatio is "0.00", every pool's share is 0 and every pool's
\* emptyBlockRatio is "0.00".
C8_ZeroBlockCount ==
    (Derived /\ input.body.blockCount = 0) =>
        /\ last.value.totalEmptyBlockRatio = <<"0", ".", "0", "0">>
        /\ \A i \in PoolIdx : /\ last.value.pools[i].share = 0
                              /\ last.value.pools[i].emptyBlockRatio = <<"0", ".", "0", "0">>

\* C8 as amended: with blockCount = 0 the totalEmptyBlockRatio is "0.00"; every
\* pool whose raw record has no share of its own has share 0; every pool whose
\* raw record has no emptyBlockRatio of its own and whose own blockCount is 0, or
\* whose emptyBlocks is 0 or absent, has emptyBlockRatio "0.00".
C8_ZeroBlockCountOwnCounts ==
    (Derived /\ input.body.blockCount = 0) =>
        /\ last.value.totalEmptyBlockRatio = <<"0", ".", "0", "0">>
        /\ \A i \in PoolIdx :
              /\ ~Has(RawPools[i], "share") => last.value.pools[i].share = 0
              /\ (/\ ~Has(RawPools[i], "emptyBlockRatio")
                  /\ (RawPools[i].blockCount = 0 \/ OrZero(RawPools[i], "emptyBlocks") = 0))
                    => last.value.pools[i].emptyBlockRatio = <<"0", ".", "0", "0">>

\* blockCount = 0 with a pool that has blocks of its own and one that has none
C8_Witness ==
    /\ Derived
    /\ input.body.blockCount = 0
    /\ \E i, j \in PoolIdx : /\ RawPools[i].blockCount > 0
                             /\ last.value.pools[i].share = 0
                             /\ RawPools[j].blockCount = 0
                             /\ OrZero(RawPools[j], "emptyBlocks") > 0
                             /\ last.value.pools[j].emptyBlockRatio = <<"0", ".", "0", "0">>

InRange(h) == 0 <= h /\ h <= 100 * 100

\* C9: for every raw payload, each pool's share, each pool's emptyBlockRatio and
\* the totalEmptyBlockRatio lie in [0,100].
C9_Ranges ==
    Derived =>
        /\ InRange(ParseFloat2(last.value.totalEmptyBlockRatio))
        /\ \A i \in PoolIdx : /\ InRange(last.value.pools[i].share)
                              /\ InRange(ParseFloat2(last.value.pools[i].emptyBlockRatio))

\* the counts of the payload are consistent: no pool has more empty blocks than
\* blocks and, when the payload has blocks, no pool has more blocks than the
\* payload and the pools together have no more empty blocks than the payload has
\* blocks; no raw record carries a share or an emptyBlockRatio of its own
Consistent(stats) ==
    /\ \A i \in 1..Len(stats.pools) :
          /\ ~Has(stats.pools[i], "share")
          /\ ~Has(stats.pools[i], "emptyBlockRatio")
          /\ OrZero(stats.pools[i], "emptyBlocks") <= stats.pools[i].blockCount
          /\ stats.blockCount > 0 => stats.pools[i].blockCount <= stats.blockCount
    /\ stats.blockCount > 0 => SumEmptyBlocks(stats.pools) <= stats.blockCount

\* C9 as amended: the three quantities lie in [0,100] for every payload of
\* non-negative counts that is consistent in the sense of Consistent.
C9_RangesWhenConsistent ==
    (Derived /\ Consistent(input.body)) =>
        /\ InRange(ParseFloat2(last.value.totalEmptyBlockRatio))
        /\ \A i \in PoolIdx : /\ InRange(last.value.pools[i].share)
                              /\ InRange(ParseFloat2(last.value.pools[i].emptyBlockRatio))

\* a consistent payload with a pool of one block in three, that block empty
C9_Witness ==
    /\ Derived
    /\ Consistent(input.body)
    /\ input.body.blockCount = 3
    /\ \E i \in PoolIdx : /\ last.value.pools[i].share = 3333
                          /\ last.value.pools[i].emptyBlockRatio = <<"1", "0", "0", ".", "0", "0">>
    /\ last.value.totalEmptyBlockRatio = <<"3", "3", ".", "3", "3">>

HeaderPresent == Has(input.headers, "x-total-count")
IsNumeral(s) == s # <<>> /\ \A i \in 1..Len(s) : IsDigit(s[i])
NonNumeric(s) == s # <<>> /\ \A i \in 1..Len(s) : ~IsDigit(s[i])

\* C10: totalBlockCount is the base-10 integer parse of the total-count header;
\* a missing header yields 0 and a non-numeric header value yields 0.
C10_TotalBlockCount ==
    Derived =>
        /\ ~HeaderPresent => last.value.totalBlockCount = JsNum(0)
        /\ (HeaderPresent /\ IsNumeral(input.headers["x-total-count"]))
              => last.value.totalBlockCount = JsNum(DigitsVal(input.headers["x-total-count"], 0))
        /\ (HeaderPresent /\ NonNumeric(input.headers["x-total-count"]))
              => last.value.totalBlockCount = JsNum(0)

\* num/den * 100 rounded to two decimals, as a count of hundredths: the integer h
\* with h - 1/2 <= 100 * 100 * num / den < h + 1/2
RoundedPercent(num, den) ==
    LET below == (100 * 100 * num) \div den
    IN CHOOSE h \in {below, below + 1} :
           /\ 2 * den * h - den <= 2 * 100 * 100 * num
           /\ 2 * 100 * 100 * num < 2 * den * h + den

\* C11: for every payload with blockCount > 0 and every pool in it, the derived
\* share equals poolBlockCount / blockCount * 100 rounded to two decimals,
\* whatever other fields the raw pool record carries.
C11_Share ==
    (Derived /\ input.body.blockCount > 0) =>
        \A i \in PoolIdx :
            last.value.pools[i].share = RoundedPercent(RawPools[i].blockCount, input.body.blockCount)

\* C11 as amended: the derived share is the raw record's own share when the raw
\* record carries one, and otherwise poolBlockCount / blockCount * 100 rounded to
\* two decimals.
C11_ShareUnlessOwn ==
    (Derived /\ input.body.blockCount > 0) =>
        \A i \in PoolIdx :
            last.value.pools[i].share =
                IF Has(RawPools[i], "share") THEN RawPools[i].share
                ELSE RoundedPercent(RawPools[i].blockCount, input.body.blockCount)

\* two blocks of three round up to 66.67, next to a pool with one block of three
C11_Witness ==
    /\ Derived
    /\ input.body.blockCount = 3
    /\ \E i, j \in PoolIdx : /\ RawPools[i].blockCount = 2
                             /\ last.value.pools[i].share = 6667
                             /\ RawPools[j].blockCount = 1
                             /\ last.value.pools[j].share = 3333

(***************************************************************************)
(* Properties of the read-only queries, under QuerySpec.                   *)
(***************************************************************************)
\* the place of a token in the ordered list of timespans
Rank(t) == CHOOSE i \in 1..Len(timespans) : timespans[i] = t

\* the preference the call works with: "1w" stands for an absent one
EffectivePreference == IF preference = Absent THEN "1w" ELSE preference.value

AskedTimespan == last.op = "getDefaultTimespan" /\ last.min \in Tokens

\* C12: getDefaultTimespan(min), for min in the list of timespans, treats an
\* absent preference as "1w"; when the preference ranks before min it returns
\* min, otherwise it returns the preference unchanged; min "1m" with preference
\* "24h" gives "1m" and with preference "1y" gives "1y".
C12_DefaultTimespan ==
    /\ (AskedTimespan /\ EffectivePreference \in Tokens) =>
           last.timespan = IF Rank(EffectivePreference) < Rank(last.min) THEN last.min
                        ELSE EffectivePreference
    /\ (AskedTimespan /\ last.min = "1m" /\ preference = Stored("24h")) => last.timespan = "1m"
    /\ (AskedTimespan /\ last.min = "1m" /\ preference = Stored("1y")) => last.timespan = "1y"
    /\ (AskedTimespan /\ preference = Absent /\ Rank(last.min) <= Rank("1w")) => last.timespan = "1w"
    \* a stored string that is no token ranks before every token: indexOf gives it -1
    /\ (AskedTimespan /\ EffectivePreference \notin Tokens) => last.timespan = last.min

\* no preference is stored and the floor "1m" is returned in place of "1w"
C12_Witness ==
    /\ AskedTimespan
    /\ preference = Absent
    /\ last.min = "1m"
    /\ last.timespan = "1m"

\* the network identifiers the service takes for test networks
TestNetworks == {"testnet", "testnet4"}

\* C13: getMiningUnits() always returns a value: divider 10^18 and unit "EH/s"
\* on the main network and on any unknown network identifier, divider 10^12 and
\* unit "TH/s" on every network identified as a test network; it reads the
\* current network and changes no state of the service.
C13_MiningUnits ==
    [][(last'.op = "getMiningUnits") =>
         /\ last'.units = IF network \in TestNetworks
                          THEN [hashrateDivider |-> [num |-> 1, den |-> 1, e |-> 12], hashrateUnit |-> "TH/s"]
                          ELSE [hashrateDivider |-> [num |-> 1, den |-> 1, e |-> 18], hashrateUnit |-> "EH/s"]
         /\ UNCHANGED <<network, now, cache, poolsData, fetches, poolFetches, preference>>]_vars

\* the units on testnet4, with a list of pools in the pool-identity cache
C13_Witness ==
    /\ last.op = "getMiningUnits"
    /\ network = "testnet4"
    /\ poolsData # <<>>
    /\ last.units.hashrateUnit = "TH/s"

DerivedExample == Derived /\ network = "" /\ input.body = ExamplePayload

\* the parts of the example that do not depend on the unit
ExampleShares ==
    /\ last.value.pools[1].share = 6000
    /\ last.value.pools[1].emptyBlockRatio = <<"1", ".", "6", "7">>
    /\ last.value.pools[2].share = 4000
    /\ last.value.pools[2].emptyBlockRatio = <<"0", ".", "0", "0">>
    /\ last.value.totalEmptyBlockRatio = <<"1", ".", "0", "0">>

\* C14: on the main network the payload {blockCount 100, lastEstimatedHashrate
\* 5e20, pools A (60 blocks, 1 empty) and B (40 blocks, 0 empty)} derives share
\* 60 and ratio "1.67" for A, share 40 and ratio "0.00" for B, the total ratio
\* "1.00" and the top-level lastEstimatedHashrate 0.5.
C14_Example ==
    DerivedExample =>
        /\ ExampleShares
        /\ last.value.lastEstimatedHashrate = [num |-> 5, den |-> 1, e |-> -1]

\* C14 as amended: the same shares and ratios, and the top-level
\* lastEstimatedHashrate 500, that is 5e20 / 10^18; of these 500 EH/s pool A is
\* given 300 and pool B 200, and the estimates the payload lacks are 0.
C14_ExampleFiveHundred ==
    DerivedExample =>
        /\ ExampleShares
        /\ last.value.lastEstimatedHashrate = [num |-> 5, den |-> 1, e |-> 2]
        /\ last.value.pools[1].lastEstimatedHashrate = [num |-> 3, den |-> 1, e |-> 2]
        /\ last.value.pools[2].lastEstimatedHashrate = [num |-> 2, den |-> 1, e |-> 2]
        /\ last.value.lastEstimatedHashrate3d = [num |-> 0, den |-> 1, e |-> 0]
        /\ last.value.lastEstimatedHashrate1w = [num |-> 0, den |-> 1, e |-> 0]
        /\ last.value.miningUnits.hashrateUnit = "EH/s"

\* the example payload derived on the main network
C14_Witness ==
    /\ DerivedExample
    /\ Len(last.value.pools) = 2
    /\ last.value.blockCount = 100
    /\ last.value.totalEmptyBlock = 1

(***************************************************************************)
(* Further properties of the two caches, under Spec.                       *)
(***************************************************************************)
\* C15: every network-change event leaves the stats cache with no key at all and
\* the pool-identity cache empty in the state right after the event, whatever
\* the caches held before.
C15_ChangeClearsAll ==
    [][(last'.op = "networkChanged") =>
         /\ \A k \in Intervals : cache'[k] = Null
         /\ poolsData' = <<>>]_vars

\* a network change that found an interval cached and a list of pools stored
C15_Witness ==
    /\ last.op = "networkChanged"
    /\ invalidated # {}
    /\ \E f \in FetchIds : fetches[f].status = "next" /\ fetches[f].eventSince
    /\ \E p \in 1..Len(poolFetches) : poolFetches[p].status = "next"
    /\ \A k \in Intervals : cache[k] = Null
    /\ poolsData = <<>>

\* C16: two getMiningStats calls for the same interval, the second made before
\* the fetch of the first completes, each issue a fetch of their own, and each
\* completion writes the cache: after a completion cache[interval] holds the data
\* and the time of that completion, so that after both it holds those of the
\* fetch that completed last, whichever call was made first.
C16_LastWriteWins ==
    [][/\ (last'.op = "getMiningStats" /\ cache[last'.interval] = Null) =>
             /\ ~last'.fromCache
             /\ last'.fetch = Len(fetches) + 1
             /\ Len(fetches') = Len(fetches) + 1
             /\ \A f \in FetchIds : fetches'[f] = fetches[f]
       /\ (last'.op = "fetchEnds") =>
             /\ cache'[last'.interval] # Null
             /\ cache'[last'.interval].data = last'.value
             /\ cache'[last'.interval].data.ref = last'.fetch
             /\ cache'[last'.interval].lastUpdated = now']_vars

\* the fetch of the first call completes after the fetch of the second call,
\* at a later time, and its data replaces the entry of the second
C16_Witness ==
    /\ Len(fetches) = 2
    /\ fetches[1].interval = fetches[2].interval
    /\ ~fetches[1].eventSince /\ ~fetches[2].eventSince
    /\ fetches[2].status = "next"
    /\ last.op = "fetchEnds" /\ last.fetch = 1
    /\ now > fetches[2].issuedAt
    /\ cache[fetches[1].interval].data.ref = 1
    /\ cache[fetches[1].interval].lastUpdated = now

\* C17: getDefaultTimespan(min) enforces the floor whatever the stored
\* preference is: for every min of the list and every stored value (absent, a
\* token of the list, or any other string) the returned token is in the list
\* and does not rank before min.
C17_Floor ==
    AskedTimespan =>
        /\ last.timespan \in Tokens
        /\ Rank(last.timespan) >= Rank(last.min)

\* a stored string that is no token, and the floor "3d" returned in its place
C17_Witness ==
    /\ AskedTimespan
    /\ preference = Stored("2h")
    /\ last.min = "3d"
    /\ last.timespan = "3d"

\* C18: in every reachable state, under any interleaving of calls, completions,
\* failures and network changes, the miningUnits stored in every entry of the
\* stats cache are the units getMiningUnits() returns for the active network.
C18_UnitsOfActiveNetwork ==
    \A k \in Intervals :
        cache[k] # Null => cache[k].data.val.miningUnits = getMiningUnits(network)

\* an entry written on testnet by a request issued on the main network
C18_Witness ==
    /\ network = "testnet"
    /\ \E k \in Intervals :
          /\ cache[k] # Null
          /\ fetches[cache[k].data.ref].net = ""
          /\ cache[k].data.val.miningUnits.hashrateUnit = "TH/s"

\* C19: a getMiningStats(interval) call answered from cache changes no state, in
\* particular not lastUpdated, so that no entry is served more than 5 minutes
\* after it was written (nor at the age of 5 minutes); a completed fetch for
\* interval k writes only cache[k] and leaves every other key and the
\* pool-identity cache unchanged; getPools, getMiningUnits and
\* getDefaultTimespan never change the stats cache.
C19_Frame ==
    [][/\ (last'.op = "getMiningStats" /\ last'.fromCache) =>
             /\ UNCHANGED <<network, now, cache, poolsData, fetches, poolFetches, preference>>
             /\ now - cache[last'.interval].lastUpdated < Ttl
       /\ (last'.op = "fetchEnds") =>
             /\ \A j \in Intervals \ {last'.interval} : cache'[j] = cache[j]
             /\ UNCHANGED <<network, now, poolsData, poolFetches, preference>>
       /\ (last'.op \in {"getPools", "poolsEnd", "getMiningUnits", "getDefaultTimespan"}) =>
             cache' = cache]_vars

\* a call answered from cache half the time-to-live after the entry was
\* written, the entry still bearing the time of its writing
C19_Witness ==
    /\ last.op = "getMiningStats"
    /\ last.fromCache
    /\ cache[last.interval].lastUpdated = now - TickMs
    /\ cache[last.interval].data = last.value

\* the request of getPools whose response poolsData is
StoredPools == {p \in 1..Len(poolFetches) : poolFetches[p].stored}

\* C20: in every reachable state, under any interleaving of getPools calls,
\* completions and network changes, a non-empty pool-identity cache was
\* populated by a request issued while the active network was active, and
\* getPools never returns from cache a list fetched for another network.
C20_PoolsOfActiveNetwork ==
    /\ poolsData # <<>> => \A p \in StoredPools : poolFetches[p].net = network
    /\ (last.op = "getPools" /\ last.fromCache) => \A p \in StoredPools : poolFetches[p].net = network

====
